---- MODULE Spec2Model ----
(***************************************************************************)
(* Term categorization and aggregation engine of src/modeling.py:          *)
(* categorize_terms, analyze_text_with_huggingface, process_single_paper   *)
(* and process_articles.                                                   *)
(*                                                                         *)
(* Python values are modelled as follows.                                  *)
(*   - a dict / Counter of term -> count is a TLA+ function whose DOMAIN   *)
(*     is the set of keys; iteration order is a fixed enumeration of the   *)
(*     keys (every result below is a mapping whose content does not        *)
(*     depend on that order);                                              *)
(*   - a taxonomy is a tagged value: PyList(<<terms>>) or PyDict(<<[key,   *)
(*     val]>>), the entries of a dict in insertion order;                  *)
(*   - a call returns [raised |-> "none", value |-> v] or raises           *)
(*     [raised |-> <exception class>, ...].                                *)
(***************************************************************************)
EXTENDS Integers, Sequences, FiniteSets, TLC

\* ------------------------------------------------------------------ bounds
\* largest raw occurrence count of a term in an input mapping
MaxCount == 2
\* longest term list of a taxonomy drawn as input of categorize_terms
MaxListLen == 2
\* most subcategories of a nested taxonomy drawn as input of categorize_terms
MaxSubcats == 2
\* most sentences (chunks) of a document text
MaxChunks == 3
\* most documents of a corpus handed to process_articles
MaxPapers == 2

\* most links of a page of the link graph
MaxLinks == 2
\* most input terms of a crawl
MaxTerms == 2
\* largest max_depth of a crawl
MaxDepth == 2
\* largest max_pages of a crawl
MaxPagesArg == 2

\* most terms of the corpus given to generate_similar_terms
MaxCorpus == 3
\* largest topn given to generate_similar_terms
MaxTopn == 3

\* ------------------------------------------------------- Python data model
EmptyMap == <<>>

PyList(items) == [type |-> "list", items |-> items, entries |-> <<>>]

PyDict(entries) == [type |-> "dict", items |-> <<>>, entries |-> entries]

Entry(key, val) == [key |-> key, val |-> val]

Get(m, k, default) == IF k \in DOMAIN m THEN m[k] ELSE default

Return(v) == [raised |-> "none", value |-> v]

Raise(e) == [raised |-> e, value |-> EmptyMap]

RECURSIVE SeqOf(_)
SeqOf(S) == IF S = {} THEN <<>>
            ELSE LET x == CHOOSE y \in S : TRUE IN <<x>> \o SeqOf(S \ {x})

\* dict.items() order of a term -> count mapping
Keys(m) == SeqOf(DOMAIN m)

In(x, list) == \E k \in 1..Len(list) : list[k] = x

Range(list) == {list[k] : k \in 1..Len(list)}

SeqsUpTo(S, n) == UNION {[1..k -> S] : k \in 0..n}

Mappings(S, V) == UNION {[T -> V] : T \in SUBSET S}

\* --------------------------------------------- taxonomy (modeling.py:80-90)
mental_health_terms ==
  <<"depression", "bipolar", "PTSD", "anxiety", "suicide", "generational trauma">>

epigenetic_terms ==
  <<"DNA methylation", "BDNF", "SLC6A4", "FKBP5", "OXTR", "stress response",
    "HPA axis dysregulation">>

\* mutant of ethnographic_terms: "Black person" is also listed under a second
\* subcategory
ethnographic_terms_overlap ==
  << Entry("African descent",
           PyList(<<"African person", "Black person", "African-American person">>)),
     Entry("Latino/Hispanic descent",
           PyList(<<"Latino person", "Hispanic person", "Latinx community">>)),
     Entry("Asian descent",
           PyList(<<"Asian person", "South Asian person", "East Asian person">>)),
     Entry("Native American descent",
           PyList(<<"Indigenous person", "Native American person", "First Nations person">>)),
     Entry("Arab descent",
           PyList(<<"Arab person", "Middle-Eastern person", "Muslim person">>)),
     Entry("European descent",
           PyList(<<"Black person", "European person", "Caucasian person", "White person">>)) >>

ethnographic_terms ==
  << Entry("African descent",
           PyList(<<"African person", "Black person", "African-American person">>)),
     Entry("Latino/Hispanic descent",
           PyList(<<"Latino person", "Hispanic person", "Latinx community">>)),
     Entry("Asian descent",
           PyList(<<"Asian person", "South Asian person", "East Asian person">>)),
     Entry("Native American descent",
           PyList(<<"Indigenous person", "Native American person", "First Nations person">>)),
     Entry("Arab descent",
           PyList(<<"Arab person", "Middle-Eastern person", "Muslim person">>)),
     Entry("European descent",
           PyList(<<"European person", "Caucasian person", "White person">>)) >>

\* mutant of socioeconomic_terms: a term of mental_health_terms is listed too
socioeconomic_terms_shared == <<"low-income", "middle-income", "high-income", "PTSD">>

socioeconomic_terms == <<"low-income", "middle-income", "high-income">>

\* the module-level taxonomy objects of lines 80-90 as the running process
\* holds them: Python lists and a dict, which any code of the module could
\* change in place
VARIABLE taxonomy

ModuleTaxonomy ==
  [mental_health_terms |-> mental_health_terms,
   epigenetic_terms    |-> epigenetic_terms,
   ethnographic_terms  |-> ethnographic_terms,
   socioeconomic_terms |-> socioeconomic_terms]

\* list(ethnographic_terms.keys())
DictKeys(entries) == [k \in 1..Len(entries) |-> entries[k].key]

\* ------------------------------------- categorize_terms (modeling.py:92-127)
\* term_counts argument: a tagged value; only "dict" and "Counter" are mappings
TermCounts(type, counts) == [type |-> type, counts |-> counts]

\* whether the object has a .get method (line 106 calls term_counts.get)
HasGet(term_counts) == term_counts.type \in {"dict", "Counter"}

\* type of term_counts.get("mental health terms", {}): the value stored under
\* that key (a count) or the default {}
GetMentalHealthType(term_counts) ==
  IF "mental health terms" \in DOMAIN term_counts.counts THEN "int" ELSE "dict"

\* mutant of AddCount: the term is counted once whatever its quantity
AddCount_one(categorized, bucket, term, count) ==
  LET inner == Get(categorized, bucket, EmptyMap)
      old   == Get(inner, term, 0)
  IN  (bucket :> ((term :> (old + 1)) @@ inner)) @@ categorized

\* categorized[bucket][term] += count on a defaultdict of defaultdict(int)
AddCount(categorized, bucket, term, count) ==
  LET inner == Get(categorized, bucket, EmptyMap)
      old   == Get(inner, term, 0)
  IN  (bucket :> ((term :> (old + count)) @@ inner)) @@ categorized

\* lines 117-120: scan the subcategories of a nested mapping, first match wins
RECURSIVE ScanNested(_, _, _, _, _)
ScanNested(categorized, term, count, subterms, k) ==
  IF k > Len(subterms) THEN categorized
  ELSE IF In(term, subterms[k].val.items)
       THEN AddCount(categorized, subterms[k].key, term, count)
       ELSE ScanNested(categorized, term, count, subterms, k + 1)

\* lines 112-120: scan the entries of the categories dict for one term
RECURSIVE ScanCategories(_, _, _, _, _)
ScanCategories(categorized, term, count, entries, k) ==
  IF k > Len(entries) THEN categorized
  ELSE LET e == entries[k] IN
       IF e.val.type = "list" /\ In(term, e.val.items)
       THEN AddCount(categorized, e.key, term, count)
       ELSE IF e.val.type = "dict"
            THEN ScanCategories(ScanNested(categorized, term, count, e.val.entries, 1),
                                term, count, entries, k + 1)
            ELSE ScanCategories(categorized, term, count, entries, k + 1)

\* lines 111-120: for term, count in term_counts.items()
RECURSIVE CategorizeDict(_, _, _, _, _)
CategorizeDict(categorized, counts, terms, entries, k) ==
  IF k > Len(terms) THEN categorized
  ELSE CategorizeDict(ScanCategories(categorized, terms[k], counts[terms[k]], entries, 1),
                      counts, terms, entries, k + 1)

\* lines 122-124: for term, count in term_counts.items(): if term in categories
RECURSIVE CategorizeList(_, _, _, _, _)
CategorizeList(categorized, counts, terms, list, k) ==
  IF k > Len(terms) THEN categorized
  ELSE CategorizeList(IF In(terms[k], list)
                      THEN AddCount(categorized, "General", terms[k], counts[terms[k]])
                      ELSE categorized,
                      counts, terms, list, k + 1)

\* line 106: the guard of the shape check
ShapeCheck(term_counts) ==
  IF ~HasGet(term_counts) THEN "AttributeError"
  ELSE IF GetMentalHealthType(term_counts) # "dict" THEN "TypeError"
  ELSE "none"

categorize_terms(term_counts, categories) ==
  IF ShapeCheck(term_counts) # "none" THEN Raise(ShapeCheck(term_counts))
  ELSE IF categories.type = "dict"
       THEN Return(CategorizeDict(EmptyMap, term_counts.counts, Keys(term_counts.counts),
                                  categories.entries, 1))
       ELSE IF categories.type = "list"
            THEN Return(CategorizeList(EmptyMap, term_counts.counts,
                                       Keys(term_counts.counts), categories.items, 1))
            ELSE Return(EmptyMap)

\* ----------------- analyze_text_with_huggingface (modeling.py:130-164)
\* line 158: score > 0.3, scores in tenths
ConfidenceThreshold == 3

\* line 140
labels ==
  taxonomy.mental_health_terms \o taxonomy.epigenetic_terms
    \o DictKeys(taxonomy.ethnographic_terms) \o taxonomy.socioeconomic_terms

\* a document text is a sequence of characters over " ", "A", "."
RECURSIVE Sentences(_)
Sentences(n) == IF n = 0 THEN <<>>
                ELSE IF n = 1 THEN <<"A", ".">>
                ELSE <<"A", ".", " ">> \o Sentences(n - 1)

TextOf(pad, n) == (IF pad THEN <<" ">> ELSE <<>>) \o Sentences(n)

RECURSIVE LStrip(_)
LStrip(s) == IF s # <<>> /\ Head(s) = " " THEN LStrip(Tail(s)) ELSE s

RECURSIVE RStrip(_)
RStrip(s) == IF s # <<>> /\ s[Len(s)] = " "
             THEN RStrip(SubSeq(s, 1, Len(s) - 1)) ELSE s

\* str.strip()
strip(s) == RStrip(LStrip(s))

\* nltk sent_tokenize (line 144): a sentence ends at ".", blanks between
\* sentences are dropped
RECURSIVE Tokenize(_, _, _)
Tokenize(text, k, cur) ==
  IF k > Len(text) THEN (IF cur = <<>> THEN <<>> ELSE <<cur>>)
  ELSE IF text[k] = "." THEN <<Append(cur, text[k])>> \o Tokenize(text, k + 1, <<>>)
  ELSE IF text[k] = " " /\ cur = <<>> THEN Tokenize(text, k + 1, cur)
  ELSE Tokenize(text, k + 1, Append(cur, text[k]))

sent_tokenize(text) == Tokenize(text, 1, <<>>)

\* the zero-shot classifier (line 153) is external: on a chunk it raises, or
\* returns a score for every candidate label it was given.  Labels outside
\* HotLabels always score 0; the others score just below, at, or just above
\* the threshold, in one of three combinations.
HotLabels == {"PTSD", "African descent", "African person"}

Lo == ConfidenceThreshold - 1

Hi == ConfidenceThreshold + 1

HotSettings ==
  { [l \in HotLabels |-> IF l = "PTSD" THEN ConfidenceThreshold ELSE Lo],
    [l \in HotLabels |-> IF l = "PTSD" THEN Hi ELSE Lo],
    [l \in HotLabels |-> Hi] }

OracleRaised(ls) == [labels |-> ls, raised |-> TRUE, scores |-> <<>>]

OracleResult(ls, hot) ==
  [labels |-> ls, raised |-> FALSE,
   scores |-> [k \in 1..Len(ls) |-> Get(hot, ls[k], 0)]]

classifier(ls) == {OracleRaised(ls)} \cup {OracleResult(ls, hot) : hot \in HotSettings}

\* additional_terms[label] += 1 on a Counter
Increment(counter, label) == (label :> (Get(counter, label, 0) + 1)) @@ counter

\* mutant of AboveThreshold: the threshold itself counts
AboveThreshold_inclusive(score) == score >= ConfidenceThreshold

\* line 158
AboveThreshold(score) == score > ConfidenceThreshold

\* lines 157-159: for label, score in zip(result["labels"], result["scores"])
RECURSIVE CountHits(_, _, _, _)
CountHits(additional, ls, ss, k) ==
  IF k > Len(ls) \/ k > Len(ss) THEN additional
  ELSE CountHits(IF AboveThreshold(ss[k]) THEN Increment(additional, ls[k])
                 ELSE additional,
                 ls, ss, k + 1)

\* mutant of ChunkStep: an exception of the classifier ends the chunk loop
ChunkStep_abort(additional, k, n, outcome) ==
  IF outcome.raised
  THEN [additional_terms |-> additional, next |-> n + 1]
  ELSE [additional_terms |-> CountHits(additional, outcome.labels, outcome.scores, 1),
        next |-> k + 1]

\* lines 149-161: one iteration of the chunk loop on chunk number k of n;
\* an exception of the classifier is caught and the loop goes on
ChunkStep(additional, k, n, outcome) ==
  IF outcome.raised
  THEN [additional_terms |-> additional, next |-> k + 1]
  ELSE [additional_terms |-> CountHits(additional, outcome.labels, outcome.scores, 1),
        next |-> k + 1]

\* ------------------------- process_single_paper (modeling.py:167-203)
None == [type |-> "NoneType", paper_id |-> 0, categorized_counts |-> EmptyMap]

\* mutant of Record: the record carries the 0-based position
Record_zero_based(paper_index, categorized_counts) ==
  [type |-> "dict", paper_id |-> paper_index - 1, categorized_counts |-> categorized_counts]

Record(paper_index, categorized_counts) ==
  [type |-> "dict", paper_id |-> paper_index, categorized_counts |-> categorized_counts]

TaskPending == [raised |-> "pending", value |-> None]

TaskReturn(v) == [raised |-> "none", value |-> v]

TaskRaise(e) == [raised |-> e, value |-> None]

\* line 178: not term_counts
IsEmptyMapping(term_counts) == DOMAIN term_counts = {}

\* line 182: not cleaned_text.strip()
IsBlank(cleaned_text) == strip(cleaned_text) = <<>>

\* Counter(a) + b: sums the counts and keeps only the positive ones
CounterAdd(a, b) ==
  LET sum(k) == Get(a, k, 0) + Get(b, k, 0)
      keep   == {k \in DOMAIN a \cup DOMAIN b : sum(k) > 0}
  IN  [k \in keep |-> sum(k)]

\* mutant of MergeCounts: the oracle's counts overwrite the raw counts
MergeCounts_overwrite(term_counts, additional) ==
  [c \in DOMAIN term_counts |-> additional @@ term_counts[c]]

\* lines 191-192
MergeCounts(term_counts, additional) ==
  [c \in DOMAIN term_counts |-> CounterAdd(term_counts[c], additional)]

\* lines 195-200, in evaluation order
CategoryPlan ==
  << [name |-> "Mental Health", raw |-> "mental health terms",
      taxonomy |-> PyList(taxonomy.mental_health_terms)],
     [name |-> "Epigenetic", raw |-> "epigenetic terms",
      taxonomy |-> PyList(taxonomy.epigenetic_terms)],
     [name |-> "Socioeconomic", raw |-> "socioeconomic terms",
      taxonomy |-> PyList(taxonomy.socioeconomic_terms)],
     [name |-> "Ethnographic", raw |-> "ethnographic terms",
      taxonomy |-> PyDict(taxonomy.ethnographic_terms)] >>

RECURSIVE BuildCategorized(_, _, _)
BuildCategorized(term_counts, acc, k) ==
  IF k > Len(CategoryPlan) THEN Return(acc)
  ELSE LET p == CategoryPlan[k] IN
       IF p.raw \notin DOMAIN term_counts THEN Raise("KeyError")
       ELSE LET r == categorize_terms(TermCounts("Counter", term_counts[p.raw]),
                                      p.taxonomy)
            IN  IF r.raised # "none" THEN r
                ELSE BuildCategorized(term_counts, (p.name :> r.value) @@ acc, k + 1)

\* line 219: [result for result in results if result]
Truthy(result) == result.type # "NoneType"

\* mutant of ProcessedPapers: skipped results are kept
ProcessedPapers_unfiltered(results) == results

ProcessedPapers(results) == SelectSeq(results, Truthy)

\* ------------------- fetch_wikipedia_corpus (scripts/expand_terms.py:37-97)
\* page titles of the link graph: two article titles and one title of the
\* Help namespace
Titles == {"A", "B", "Help:C"}

\* line 50: the title starts with Help:, Category:, File:, Portal:, Template:
\* or Wikipedia:
HasNamespacePrefix(title) == title \in {"Help:C"}

\* line 53: the title is made of letters, digits, white space and hyphens only
IsAlphanumeric(title) == title \in {"A", "B"}

\* lines 50-55
is_valid_title(title) ==
  IF HasNamespacePrefix(title) THEN FALSE
  ELSE IF ~IsAlphanumeric(title) THEN FALSE
  ELSE TRUE

\* line 75: the guard at the head of fetch_links
FetchLinksReturnsAtOnce(depth, max_depth, corpus, max_pages) ==
  depth > max_depth \/ Cardinality(corpus) >= max_pages

\* a frame of fetch_links: the page, the depth and the links the for loop of
\* line 77 has not reached yet
Frame(title, depth, todo) == [page |-> title, depth |-> depth, todo |-> todo]

VARIABLES
  cr_input_terms,   \* fetch_wikipedia_corpus: the input_terms argument
  cr_max_depth,     \* the max_depth argument
  cr_max_pages,     \* the max_pages argument
  cr_links,         \* cr_links[t]: the titles page t links to
  cr_exists,        \* the titles whose page exists
  cr_corpus,        \* the corpus set of line 72
  cr_stack,         \* the active calls of fetch_links, innermost last
  cr_ti,            \* number of the next input term of the loop of line 87
  cr_fetched,       \* cr_fetched[t]: how many times wiki_wiki.page(t) was asked for
  cr_pc,            \* "idle", "crawl" or "returned"
  cr_result         \* the returned list

cr_vars == <<cr_input_terms, cr_max_depth, cr_max_pages, cr_links, cr_exists, cr_corpus,
             cr_stack, cr_ti, cr_fetched, cr_pc, cr_result>>

\* --------------- generate_similar_terms (scripts/expand_terms.py:99-156)
\* str.lower() on the terms of the model
lower(term) ==
  CASE term = "PTSD"   -> "ptsd"
    [] term = "Stress" -> "stress"
    [] OTHER           -> term

\* the Python slice list[:n], n negative included
SliceTo(list, n) ==
  IF n >= 0 THEN SubSeq(list, 1, IF n < Len(list) THEN n ELSE Len(list))
  ELSE SubSeq(list, 1, IF Len(list) + n > 0 THEN Len(list) + n ELSE 0)

\* line 144: [valid_corpus[i].lower() for i in sorted_indices[:topn]]
TopTerms(corpus, sorted_indices, topn) ==
  LET head == SliceTo(sorted_indices, topn)
  IN  [k \in 1..Len(head) |-> lower(corpus[head[k]])]

\* lines 147-148: include the original term if missing
IncludeOriginal(input_term, top_terms, topn) ==
  IF ~In(lower(input_term), top_terms)
  THEN <<lower(input_term)>> \o SliceTo(top_terms, topn - 1)
  ELSE top_terms

\* lines 132-155: the body of the loop for one input term; `raised` says
\* whether encoding the term or computing the similarities raised
TopSimilarTermsOf(input_term, corpus, sorted_indices, topn, raised) ==
  IF raised THEN <<input_term>>
  ELSE IncludeOriginal(input_term, TopTerms(corpus, sorted_indices, topn), topn)

\* the permutations of 1..n: what np.argsort(similarities)[::-1] can be
Rankings(n) == {p \in [1..n -> 1..n] : \A a, b \in 1..n : p[a] = p[b] => a = b}

VARIABLES
  ex_input_term,    \* generate_similar_terms: the term of term_list in hand
  ex_corpus,        \* the corpus argument
  ex_ranking,       \* the corpus indices by decreasing similarity to the term
  ex_topn,          \* the topn argument
  ex_raises,        \* whether the encoder or the similarity raises for the term
  ex_pc,            \* "idle", "call" or "returned"
  ex_ret            \* top_similar_terms[input_term]

ex_vars == <<ex_input_term, ex_corpus, ex_ranking, ex_topn, ex_raises, ex_pc, ex_ret>>

\* the variables of the scripts, which process_articles does not touch
script_vars == <<cr_vars, ex_vars>>

\* ------------------------------------------------------------------ state
VARIABLES
  ct_term_counts,   \* categorize_terms call: the term_counts argument
  ct_categories,    \* categorize_terms call: the categories argument
  ct_pc,            \* "idle", "call", "returned" or "raised"
  ct_ret,           \* categorize_terms call: what the call returned or raised
  papers,           \* data["papers"] as loaded by process_articles (line 211)
  doc,              \* doc[i]: the paper object held by the worker of task i
  pc,               \* pc[i]: position of task i in process_single_paper
  chunks,           \* chunks[i]: sent_tokenize(cleaned_text) of task i
  ci,               \* ci[i]: number of the next chunk of the loop of task i
  additional_terms, \* additional_terms[i]: the Counter of task i
  oracle_log,       \* oracle_log[i]: the classifier calls of task i, in order
  task,             \* task[i]: the future of task i (pending, returned, raised)
  results,          \* the results list(executor.map(...)) has collected so far
  pa_pc,            \* process_articles: "idle", "map", "written" or "raised"
  output,           \* the output artifact
  completed         \* the tasks that have ended, in the order they ended

vars == <<ct_term_counts, ct_categories, ct_pc, ct_ret, taxonomy, papers, doc, pc, chunks,
          ci, additional_terms, oracle_log, task, results, pa_pc, output, completed,
          script_vars>>

ct_vars == <<ct_term_counts, ct_categories, ct_pc, ct_ret>>

pa_vars == <<taxonomy, papers, doc, pc, chunks, ci, additional_terms, oracle_log, task,
             results, pa_pc, output, completed>>

NoOutput == [written |-> FALSE, papers |-> <<>>]

\* ------------------------------------------------ inputs of categorize_terms
CTTerms == {"PTSD", "African-American", "unknown", "mental health terms"}

CTTaxonomyTerms == {"PTSD", "African-American"}

CTTermCounts ==
  {TermCounts("dict", c) : c \in Mappings(CTTerms, 0..MaxCount)}
    \cup {TermCounts(t, EmptyMap) : t \in {"list", "str", "int", "NoneType"}}

\* term lists as the module writes them (lines 80-90): no term twice
CTLists ==
  {l \in SeqsUpTo(CTTaxonomyTerms, MaxListLen) :
     \A a, b \in 1..Len(l) : l[a] = l[b] => a = b}

FlatTaxonomies == {PyList(l) : l \in CTLists}

NestedTaxonomies ==
  UNION { { PyDict([k \in 1..n |-> Entry(DictKeys(ethnographic_terms)[k], PyList(ls[k]))])
            : ls \in [1..n -> CTLists] }
          : n \in 0..MaxSubcats }

\* the taxonomy of test_categorize_terms (tests/test_modeling.py:129-133)
MixedTaxonomy ==
  PyDict(<< Entry("Mental Health", PyList(<<"PTSD", "anxiety", "depression">>)),
            Entry("Epigenetic", PyList(<<"DNA methylation", "BDNF", "FKBP5">>)),
            Entry("Ethnographic",
                  PyDict(<<Entry("African descent", PyList(<<"African-American">>))>>)) >>)

\* taxonomies of the kind of the test: a list-valued entry and a mapping-valued
\* entry with one subcategory, in both orders
MixedTaxonomies ==
  UNION { { PyDict(<<Entry("Mental Health", PyList(l)),
                     Entry("Ethnographic", PyDict(<<Entry("African descent", PyList(n))>>))>>),
            PyDict(<<Entry("Ethnographic", PyDict(<<Entry("African descent", PyList(n))>>)),
                     Entry("Mental Health", PyList(l))>>) }
          : l \in CTLists, n \in CTLists }

CTTaxonomies == FlatTaxonomies \cup NestedTaxonomies \cup MixedTaxonomies \cup {MixedTaxonomy}

\* ------------------------------------------------ inputs of process_articles
Paper(cleaned_text, term_counts) ==
  [paper_name |-> "p", cleaned_text |-> cleaned_text, term_counts |-> term_counts]

\* texts of 0..MaxChunks sentences; the shortest also with a leading blank
Texts == {TextOf(FALSE, n) : n \in 0..MaxChunks} \cup {TextOf(TRUE, n) : n \in 0..1}

\* counts of the term "PTSD" and of a term named "mental health terms"
MentalCounts ==
  {m @@ k : m \in Mappings({"PTSD"}, 0..MaxCount),
            k \in Mappings({"mental health terms"}, {1})}

EthnoCounts == {EmptyMap, ("African person" :> 1) @@ ("African descent" :> 1)}

\* the four raw categories of the input artifact (modeling.py:26-29)
FullTermCounts(m, e) ==
  ("mental health terms" :> m) @@ ("epigenetic terms" :> ("DNA methylation" :> 1))
    @@ ("socioeconomic terms" :> EmptyMap) @@ ("ethnographic terms" :> e)

\* the raw categories of the test input (tests/test_modeling.py:37-41)
PartialTermCounts(m, e) ==
  ("mental health terms" :> m) @@ ("epigenetic terms" :> ("DNA methylation" :> 1))
    @@ ("ethnographic terms" :> e)

RichTermCounts ==
  {EmptyMap}
    \cup {FullTermCounts(m, e) : m \in MentalCounts, e \in EthnoCounts}
    \cup {PartialTermCounts(m, e) : m \in MentalCounts, e \in EthnoCounts}

RichPapers == {Paper(t, tc) : t \in Texts, tc \in RichTermCounts}

PoolPapers ==
  { Paper(TextOf(FALSE, 1), EmptyMap),
    Paper(TextOf(TRUE, 0), FullTermCounts(("PTSD" :> MaxCount), EmptyMap)),
    Paper(TextOf(FALSE, 1), FullTermCounts(("PTSD" :> MaxCount), EmptyMap)),
    Paper(TextOf(FALSE, 1), PartialTermCounts(("PTSD" :> 1), EmptyMap)) }

\* a corpus: one document of any shape, or up to MaxPapers documents
Corpora == {<<p>> : p \in RichPapers} \cup SeqsUpTo(PoolPapers, MaxPapers)

TaskIds == 1..Len(papers)

\* ------------------------------------------------------------------- Init
InitCT ==
  /\ ct_term_counts \in CTTermCounts
  /\ ct_categories \in CTTaxonomies
  /\ ct_pc = "call"
  /\ ct_ret = Return(EmptyMap)

IdleCT ==
  /\ ct_term_counts = TermCounts("dict", EmptyMap)
  /\ ct_categories = PyList(<<>>)
  /\ ct_pc = "idle"
  /\ ct_ret = Return(EmptyMap)

InitPA(corpora, start) ==
  /\ taxonomy = ModuleTaxonomy
  /\ completed = <<>>
  /\ papers \in corpora
  /\ doc = papers
  /\ pc = [i \in 1..Len(papers) |-> "queued"]
  /\ chunks = [i \in 1..Len(papers) |-> <<>>]
  /\ ci = [i \in 1..Len(papers) |-> 1]
  /\ additional_terms = [i \in 1..Len(papers) |-> EmptyMap]
  /\ oracle_log = [i \in 1..Len(papers) |-> <<>>]
  /\ task = [i \in 1..Len(papers) |-> TaskPending]
  /\ results = <<>>
  /\ pa_pc = start
  /\ output = NoOutput

\* no crawl is running
IdleCR ==
  /\ cr_input_terms = <<>>
  /\ cr_max_depth = 0
  /\ cr_max_pages = 0
  /\ cr_links = [t \in Titles |-> {}]
  /\ cr_exists = {}
  /\ cr_corpus = {}
  /\ cr_stack = <<>>
  /\ cr_ti = 1
  /\ cr_fetched = [t \in Titles |-> 0]
  /\ cr_pc = "idle"
  /\ cr_result = <<>>

\* the link graphs: every page links to at most MaxLinks titles
LinkGraphs == [Titles -> {L \in SUBSET Titles : Cardinality(L) <= MaxLinks}]

\* fetch_wikipedia_corpus is called (lines 58 and 72)
InitCR ==
  /\ cr_input_terms \in SeqsUpTo(Titles, MaxTerms)
  /\ cr_max_depth \in 0..MaxDepth
  /\ cr_max_pages \in 0..MaxPagesArg
  /\ cr_links \in LinkGraphs
  /\ cr_exists \in {Titles, Titles \ {"B"}}
  /\ cr_corpus = {}
  /\ cr_stack = <<>>
  /\ cr_ti = 1
  /\ cr_fetched = [t \in Titles |-> 0]
  /\ cr_pc = "crawl"
  /\ cr_result = <<>>

\* no call of generate_similar_terms is running
IdleEX ==
  /\ ex_input_term = ""
  /\ ex_corpus = <<>>
  /\ ex_ranking = <<>>
  /\ ex_topn = 0
  /\ ex_raises = FALSE
  /\ ex_pc = "idle"
  /\ ex_ret = <<>>

\* generate_similar_terms(term_list, model, corpus, topn, per_term=True) has
\* reached an input term (line 131)
InitEX ==
  /\ ex_input_term \in {"PTSD", "stress"}
  /\ ex_corpus \in SeqsUpTo({"PTSD", "Stress", "tea"}, MaxCorpus)
  /\ ex_ranking \in Rankings(Len(ex_corpus))
  /\ ex_topn \in 0..MaxTopn
  /\ ex_raises \in BOOLEAN
  /\ ex_pc = "call"
  /\ ex_ret = <<>>

Init == IdleCT /\ InitPA(Corpora, "map") /\ IdleCR /\ IdleEX

InitClassify == InitCT /\ InitPA({<<>>}, "idle") /\ IdleCR /\ IdleEX

\* the taxonomy arguments process_single_paper passes (lines 196-199)
ProgramTaxonomies ==
  {PyList(mental_health_terms), PyList(epigenetic_terms), PyList(socioeconomic_terms),
   PyDict(ethnographic_terms)}

\* merged counts of one raw category (line 192): a Counter over terms of the
\* taxonomy
ProgramTermCounts ==
  {TermCounts("Counter", m)
     : m \in Mappings({"African person", "Black person", "White person", "PTSD"},
                      1..MaxCount)}

\* categorize_terms is called as in lines 196-199
InitCTProgram ==
  /\ ct_term_counts \in ProgramTermCounts
  /\ ct_categories \in ProgramTaxonomies
  /\ ct_pc = "call"
  /\ ct_ret = Return(EmptyMap)

InitTaxonomy == InitCTProgram /\ InitPA({<<>>}, "idle") /\ IdleCR /\ IdleEX

InitCrawl == IdleCT /\ InitPA({<<>>}, "idle") /\ InitCR /\ IdleEX

\* ---------------------------------------------------------------- actions
\* a call of categorize_terms on the drawn arguments
CallCategorizeTerms ==
  /\ ct_pc = "call"
  /\ ct_ret' = categorize_terms(ct_term_counts, ct_categories)
  /\ ct_pc' = IF ct_ret'.raised = "none" THEN "returned" ELSE "raised"
  /\ UNCHANGED <<ct_term_counts, ct_categories>>
  /\ UNCHANGED <<pa_vars, script_vars>>

\* mutant of CheckTermCounts: the emptiness of term_counts is not checked
CheckTermCounts_unchecked(i) ==
  /\ pc[i] = "queued"
  /\ pc' = [pc EXCEPT ![i] = "check_text"]
  /\ UNCHANGED <<taxonomy, completed, papers, doc, chunks, ci, additional_terms, oracle_log,
                 task, results, pa_pc, output>>
  /\ UNCHANGED <<ct_vars, script_vars>>

\* process_single_paper, lines 171-180: a worker takes task i and checks
\* term_counts
CheckTermCounts(i) ==
  /\ pc[i] = "queued"
  /\ IF IsEmptyMapping(doc[i].term_counts)
     THEN /\ task' = [task EXCEPT ![i] = TaskReturn(None)]
          /\ pc' = [pc EXCEPT ![i] = "done"]
          /\ completed' = Append(completed, i)
     ELSE /\ pc' = [pc EXCEPT ![i] = "check_text"]
          /\ UNCHANGED <<task, completed>>
  /\ UNCHANGED <<taxonomy, papers, doc, chunks, ci, additional_terms, oracle_log, results,
                 pa_pc, output>>
  /\ UNCHANGED <<ct_vars, script_vars>>

\* mutant of CheckText: the label list is built by extending
\* mental_health_terms in place
CheckText_extend(i) ==
  /\ pc[i] = "check_text"
  /\ IF IsBlank(doc[i].cleaned_text)
     THEN /\ task' = [task EXCEPT ![i] = TaskReturn(None)]
          /\ pc' = [pc EXCEPT ![i] = "done"]
          /\ completed' = Append(completed, i)
          /\ UNCHANGED <<chunks, ci, additional_terms, taxonomy>>
     ELSE /\ pc' = [pc EXCEPT ![i] = "analyze"]
          /\ chunks' = [chunks EXCEPT ![i] = sent_tokenize(doc[i].cleaned_text)]
          /\ ci' = [ci EXCEPT ![i] = 1]
          /\ additional_terms' = [additional_terms EXCEPT ![i] = EmptyMap]
          /\ taxonomy' = [taxonomy EXCEPT !.mental_health_terms = labels]
          /\ UNCHANGED <<task, completed>>
  /\ UNCHANGED <<papers, doc, oracle_log, results, pa_pc, output>>
  /\ UNCHANGED <<ct_vars, script_vars>>

\* lines 182-187 and 139-145: check the text, then enter
\* analyze_text_with_huggingface up to the chunk loop
CheckText(i) ==
  /\ pc[i] = "check_text"
  /\ IF IsBlank(doc[i].cleaned_text)
     THEN /\ task' = [task EXCEPT ![i] = TaskReturn(None)]
          /\ pc' = [pc EXCEPT ![i] = "done"]
          /\ completed' = Append(completed, i)
          /\ UNCHANGED <<chunks, ci, additional_terms>>
     ELSE /\ pc' = [pc EXCEPT ![i] = "analyze"]
          /\ chunks' = [chunks EXCEPT ![i] = sent_tokenize(doc[i].cleaned_text)]
          /\ ci' = [ci EXCEPT ![i] = 1]
          /\ additional_terms' = [additional_terms EXCEPT ![i] = EmptyMap]
          /\ UNCHANGED <<task, completed>>
  /\ UNCHANGED <<taxonomy, papers, doc, oracle_log, results, pa_pc, output>>
  /\ UNCHANGED <<ct_vars, script_vars>>

\* mutant of ClassifyChunk: the workers count into one shared Counter
ClassifyChunk_shared(i) ==
  /\ pc[i] = "analyze"
  /\ ci[i] <= Len(chunks[i])
  /\ \E outcome \in classifier(labels) :
       LET step == ChunkStep(additional_terms[i], ci[i], Len(chunks[i]), outcome) IN
       /\ oracle_log' = [oracle_log EXCEPT ![i] = Append(@, outcome)]
       /\ additional_terms' = [j \in TaskIds |-> step.additional_terms]
       /\ ci' = [ci EXCEPT ![i] = step.next]
  /\ UNCHANGED <<taxonomy, completed, papers, doc, pc, chunks, task, results, pa_pc, output>>
  /\ UNCHANGED <<ct_vars, script_vars>>

\* lines 149-161: one iteration of the chunk loop
ClassifyChunk(i) ==
  /\ pc[i] = "analyze"
  /\ ci[i] <= Len(chunks[i])
  /\ \E outcome \in classifier(labels) :
       LET step == ChunkStep(additional_terms[i], ci[i], Len(chunks[i]), outcome) IN
       /\ oracle_log' = [oracle_log EXCEPT ![i] = Append(@, outcome)]
       /\ additional_terms' = [additional_terms EXCEPT ![i] = step.additional_terms]
       /\ ci' = [ci EXCEPT ![i] = step.next]
  /\ UNCHANGED <<taxonomy, completed, papers, doc, pc, chunks, task, results, pa_pc,
                 output>>
  /\ UNCHANGED <<ct_vars, script_vars>>

\* mutant of Merge: the counts merged are those of whichever task's Counter
\* the worker finds
Merge_shared(i) ==
  /\ pc[i] = "analyze"
  /\ ci[i] > Len(chunks[i])
  /\ \E j \in TaskIds :
       doc' = [doc EXCEPT ![i].term_counts = MergeCounts(@, additional_terms[j])]
  /\ pc' = [pc EXCEPT ![i] = "categorize"]
  /\ UNCHANGED <<taxonomy, completed, papers, chunks, ci, additional_terms, oracle_log, task,
                 results, pa_pc, output>>
  /\ UNCHANGED <<ct_vars, script_vars>>

\* lines 162-164 and 190-192: the loop is over, analyze returns and the counts
\* are merged into the paper's term_counts
Merge(i) ==
  /\ pc[i] = "analyze"
  /\ ci[i] > Len(chunks[i])
  /\ doc' = [doc EXCEPT ![i].term_counts = MergeCounts(@, additional_terms[i])]
  /\ pc' = [pc EXCEPT ![i] = "categorize"]
  /\ UNCHANGED <<taxonomy, completed, papers, chunks, ci, additional_terms, oracle_log,
                 task, results, pa_pc, output>>
  /\ UNCHANGED <<ct_vars, script_vars>>

\* lines 195-203: categorize the four categories and return the record
Categorize(i) ==
  /\ pc[i] = "categorize"
  /\ LET r == BuildCategorized(doc[i].term_counts, EmptyMap, 1) IN
     task' = [task EXCEPT ![i] = IF r.raised # "none" THEN TaskRaise(r.raised)
                                  ELSE TaskReturn(Record(i, r.value))]
  /\ pc' = [pc EXCEPT ![i] = "done"]
  /\ completed' = Append(completed, i)
  /\ UNCHANGED <<taxonomy, papers, doc, chunks, ci, additional_terms, oracle_log, results,
                 pa_pc, output>>
  /\ UNCHANGED <<ct_vars, script_vars>>

\* mutant of Collect: the results are taken in the order the tasks ended
Collect_completion_order ==
  /\ pa_pc = "map"
  /\ Len(results) < Len(completed)
  /\ LET k == completed[Len(results) + 1] IN
     IF task[k].raised # "none"
     THEN pa_pc' = "raised" /\ UNCHANGED results
     ELSE results' = Append(results, task[k].value) /\ UNCHANGED pa_pc
  /\ UNCHANGED <<taxonomy, completed, papers, doc, pc, chunks, ci, additional_terms,
                 oracle_log, task, output>>
  /\ UNCHANGED <<ct_vars, script_vars>>

\* mutant of Collect: the exception of a task is swallowed and the task counts
\* as skipped
Collect_swallow ==
  /\ pa_pc = "map"
  /\ Len(results) < Len(papers)
  /\ LET k == Len(results) + 1 IN
     /\ pc[k] = "done"
     /\ results' = Append(results, task[k].value)
  /\ UNCHANGED <<taxonomy, completed, papers, doc, pc, chunks, ci, additional_terms,
                 oracle_log, task, pa_pc, output>>
  /\ UNCHANGED <<ct_vars, script_vars>>

\* line 216: list(executor.map(...)) takes the next result in input order; an
\* exception of the task is raised again in process_articles
Collect ==
  /\ pa_pc = "map"
  /\ Len(results) < Len(papers)
  /\ LET k == Len(results) + 1 IN
     /\ pc[k] = "done"
     /\ IF task[k].raised # "none"
        THEN pa_pc' = "raised" /\ UNCHANGED results
        ELSE results' = Append(results, task[k].value) /\ UNCHANGED pa_pc
  /\ UNCHANGED <<taxonomy, completed, papers, doc, pc, chunks, ci, additional_terms,
                 oracle_log, task, output>>
  /\ UNCHANGED <<ct_vars, script_vars>>

\* line 216: once map has raised, a task no worker has taken may be cancelled
CancelQueued(i) ==
  /\ pa_pc = "raised"
  /\ pc[i] = "queued"
  /\ pc' = [pc EXCEPT ![i] = "cancelled"]
  /\ UNCHANGED <<taxonomy, completed, papers, doc, chunks, ci, additional_terms, oracle_log,
                 task, results, pa_pc, output>>
  /\ UNCHANGED <<ct_vars, script_vars>>

\* lines 219-225: filter the results and write the output artifact
WriteOutput ==
  /\ pa_pc = "map"
  /\ Len(results) = Len(papers)
  /\ output' = [written |-> TRUE, papers |-> ProcessedPapers(results)]
  /\ pa_pc' = "written"
  /\ UNCHANGED <<taxonomy, completed, papers, doc, pc, chunks, ci, additional_terms,
                 oracle_log, task, results>>
  /\ UNCHANGED <<ct_vars, script_vars>>

\* wiki_wiki.page(title) is asked for and its existence looked up
Fetch(fetched, title) == [fetched EXCEPT ![title] = @ + 1]

\* the call fetch_links(title's page, depth) made with the corpus `corpus`: a
\* new frame, or nothing when the guard of line 75 returns at once
Call(stack, title, depth, corpus) ==
  IF FetchLinksReturnsAtOnce(depth, cr_max_depth, corpus, cr_max_pages) THEN stack
  ELSE Append(stack, Frame(title, depth, cr_links[title]))

\* lines 87-94: one iteration of the loop over the input terms, up to the call
\* of fetch_links
NextTerm ==
  /\ cr_pc = "crawl"
  /\ cr_stack = <<>>
  /\ cr_ti <= Len(cr_input_terms)
  /\ LET term == cr_input_terms[cr_ti] IN
     /\ cr_fetched' = Fetch(cr_fetched, term)
     /\ IF term \in cr_exists
        THEN /\ cr_corpus' = IF is_valid_title(term) THEN cr_corpus \cup {term} ELSE cr_corpus
             /\ cr_stack' = Call(cr_stack, term, 1, cr_corpus')
        ELSE UNCHANGED <<cr_corpus, cr_stack>>
  /\ cr_ti' = cr_ti + 1
  /\ UNCHANGED <<cr_input_terms, cr_max_depth, cr_max_pages, cr_links, cr_exists, cr_pc,
                 cr_result>>
  /\ UNCHANGED <<ct_vars, pa_vars, ex_vars>>

\* lines 77-84: one iteration of the loop over page.links.keys() in the
\* innermost call of fetch_links, up to the recursive call
VisitLink ==
  /\ cr_pc = "crawl"
  /\ cr_stack # <<>>
  /\ LET n   == Len(cr_stack)
         top == cr_stack[n]
     IN  \E title \in top.todo :
           LET rest == [cr_stack EXCEPT ![n].todo = @ \ {title}] IN
           IF is_valid_title(title) /\ title \notin cr_corpus
           THEN /\ cr_corpus' = cr_corpus \cup {title}
                /\ cr_fetched' = Fetch(cr_fetched, title)
                /\ cr_stack' = IF title \in cr_exists
                               THEN Call(rest, title, top.depth + 1, cr_corpus')
                               ELSE rest
           ELSE /\ cr_stack' = rest
                /\ UNCHANGED <<cr_corpus, cr_fetched>>
  /\ UNCHANGED <<cr_input_terms, cr_max_depth, cr_max_pages, cr_links, cr_exists, cr_ti,
                 cr_pc, cr_result>>
  /\ UNCHANGED <<ct_vars, pa_vars, ex_vars>>

\* line 77: the loop of the innermost call is over and fetch_links returns
ReturnFetchLinks ==
  /\ cr_pc = "crawl"
  /\ cr_stack # <<>>
  /\ cr_stack[Len(cr_stack)].todo = {}
  /\ cr_stack' = SubSeq(cr_stack, 1, Len(cr_stack) - 1)
  /\ UNCHANGED <<cr_input_terms, cr_max_depth, cr_max_pages, cr_links, cr_exists, cr_corpus,
                 cr_ti, cr_fetched, cr_pc, cr_result>>
  /\ UNCHANGED <<ct_vars, pa_vars, ex_vars>>

\* line 97: return list(corpus)
ReturnCorpus ==
  /\ cr_pc = "crawl"
  /\ cr_stack = <<>>
  /\ cr_ti > Len(cr_input_terms)
  /\ cr_result' = SeqOf(cr_corpus)
  /\ cr_pc' = "returned"
  /\ UNCHANGED <<cr_input_terms, cr_max_depth, cr_max_pages, cr_links, cr_exists, cr_corpus,
                 cr_stack, cr_ti, cr_fetched>>
  /\ UNCHANGED <<ct_vars, pa_vars, ex_vars>>

\* lines 131-155: the loop body for the input term
ExpandTerm ==
  /\ ex_pc = "call"
  /\ ex_ret' = TopSimilarTermsOf(ex_input_term, ex_corpus, ex_ranking, ex_topn, ex_raises)
  /\ ex_pc' = "returned"
  /\ UNCHANGED <<ex_input_term, ex_corpus, ex_ranking, ex_topn, ex_raises>>
  /\ UNCHANGED <<ct_vars, pa_vars, cr_vars>>

Next ==
  \/ \E i \in TaskIds : CheckTermCounts(i)
  \/ \E i \in TaskIds : CheckText(i)
  \/ \E i \in TaskIds : ClassifyChunk(i)
  \/ \E i \in TaskIds : Merge(i)
  \/ \E i \in TaskIds : Categorize(i)
  \/ \E i \in TaskIds : CancelQueued(i)
  \/ Collect
  \/ WriteOutput

\* process_articles on a corpus
Spec == Init /\ [][Next]_vars

\* the steps of the worker that runs task i
TaskStep(i) ==
  /\ i \in TaskIds
  /\ \/ CheckTermCounts(i)
     \/ CheckText(i)
     \/ ClassifyChunk(i)
     \/ Merge(i)
     \/ Categorize(i)

\* process_articles on a corpus when every worker keeps running, every call
\* of the classifier returns or raises, and process_articles itself keeps
\* running (lines 215-225)
SpecFair ==
  /\ Init
  /\ [][Next]_vars
  /\ \A i \in 1..MaxPapers : WF_vars(TaskStep(i))
  /\ WF_vars(Collect)
  /\ WF_vars(WriteOutput)

NextClassify == CallCategorizeTerms

\* categorize_terms on drawn arguments
SpecClassify == InitClassify /\ [][NextClassify]_vars

NextTaxonomy == CallCategorizeTerms

\* categorize_terms on the taxonomy of the program
SpecTaxonomy == InitTaxonomy /\ [][NextTaxonomy]_vars

NextCrawl ==
  \/ NextTerm
  \/ VisitLink
  \/ ReturnFetchLinks
  \/ ReturnCorpus

\* fetch_wikipedia_corpus on a drawn link graph
SpecCrawl == InitCrawl /\ [][NextCrawl]_vars

InitExpand == IdleCT /\ InitPA({<<>>}, "idle") /\ IdleCR /\ InitEX

NextExpand == ExpandTerm

\* generate_similar_terms in per_term mode on drawn arguments
SpecExpand == InitExpand /\ [][NextExpand]_vars

\* ------------------------------------------------- claims: categorize_terms
IsMapping(term_counts) == term_counts.type \in {"dict", "Counter"}

Called == ct_pc \in {"returned", "raised"}

IsFlat(categories) == categories.type = "list"

IsNested(categories) ==
  /\ categories.type = "dict"
  /\ \A k \in 1..Len(categories.entries) : categories.entries[k].val.type = "list"

\* number of the first subcategory whose list holds the term, 0 when none does
FirstMatch(term, entries) ==
  LET hits == {k \in 1..Len(entries) : In(term, entries[k].val.items)}
  IN  IF hits = {} THEN 0 ELSE CHOOSE k \in hits : \A j \in hits : k <= j

\* C1: for every term_counts mapping and every flat taxonomy, categorize_terms
\* returns a result whose bucket "General" maps exactly the terms of term_counts
\* that are in the taxonomy to their input counts, and holds no other term.
C1_FlatClassification ==
  (Called /\ IsMapping(ct_term_counts) /\ IsFlat(ct_categories)) =>
    /\ ct_ret.raised = "none"
    /\ DOMAIN ct_ret.value \subseteq {"General"}
    /\ LET general == Get(ct_ret.value, "General", EmptyMap)
           counts  == ct_term_counts.counts
       IN  /\ DOMAIN general = DOMAIN counts \cap Range(ct_categories.items)
           /\ \A t \in DOMAIN general : general[t] = counts[t]

\* C2: for every term_counts mapping and every nested taxonomy, each term's
\* count is under [subcategory][term] for the first subcategory, in definition
\* order, whose list holds the term, and nowhere else; a term of no subcategory
\* is absent from the result.
C2_NestedClassification ==
  (Called /\ IsMapping(ct_term_counts) /\ IsNested(ct_categories)) =>
    /\ ct_ret.raised = "none"
    /\ LET entries == ct_categories.entries
           counts  == ct_term_counts.counts
           value   == ct_ret.value
       IN  /\ DOMAIN value \subseteq Range(DictKeys(entries))
           /\ \A b \in DOMAIN value : DOMAIN value[b] \subseteq DOMAIN counts
           /\ \A t \in DOMAIN counts : \A k \in 1..Len(entries) :
                LET b == entries[k].key IN
                IF FirstMatch(t, entries) = k
                THEN b \in DOMAIN value /\ t \in DOMAIN value[b]
                     /\ value[b][t] = counts[t]
                ELSE ~(b \in DOMAIN value /\ t \in DOMAIN value[b])

\* C3: whenever term_counts is not a mapping, the call fails with a TypeError
\* and returns no categorized result.
C3_NonMappingRaisesTypeError ==
  (Called /\ ~IsMapping(ct_term_counts)) =>
    /\ ct_pc = "raised"
    /\ ct_ret.raised = "TypeError"
    /\ ct_ret.value = EmptyMap

\* ------------------------------------------- claims: process_single_paper
\* the document fails a precondition of lines 178-184
Skippable(paper) == IsEmptyMapping(paper.term_counts) \/ IsBlank(paper.cleaned_text)

Skipped(i) == pc[i] = "done" /\ task[i] = TaskReturn(None)

\* task i has run the merge of lines 191-192
Merged(i) == pc[i] = "categorize" \/ (pc[i] = "done" /\ ~Skipped(i))

\* the score the classifier call `call` gave to label l (0 when not a candidate)
ScoreOf(call, l) ==
  IF call.raised \/ ~In(l, call.labels) THEN 0
  ELSE call.scores[CHOOSE k \in 1..Len(call.labels) : call.labels[k] = l]

\* the chunks of task i whose classifier call returned with a score for l
\* strictly above 0.3
QualifyingChunks(i, l) ==
  {k \in 1..Len(oracle_log[i]) :
     ~oracle_log[i][k].raised /\ ScoreOf(oracle_log[i][k], l) > ConfidenceThreshold}

\* the labels that can have a count: the others always score 0
KnownLabels(i) == HotLabels \cup DOMAIN additional_terms[i]

\* C4: for every non-skipped document, every raw category c of its term_counts
\* and every label L, the merged count is raw[c].get(L, 0) + oracle[L]; a raw
\* term the oracle did not return keeps its raw count.
C4_AdditiveMerge ==
  \A i \in TaskIds : Merged(i) =>
    /\ DOMAIN doc[i].term_counts = DOMAIN papers[i].term_counts
    /\ \A c \in DOMAIN papers[i].term_counts :
         LET raw == papers[i].term_counts[c]
             merged == doc[i].term_counts[c]
         IN  \A l \in DOMAIN raw \cup DOMAIN merged \cup KnownLabels(i) :
               Get(merged, l, 0) = Get(raw, l, 0) + Get(additional_terms[i], l, 0)

C4_Witness ==
  \E i \in TaskIds :
    /\ Merged(i)
    /\ "mental health terms" \in DOMAIN papers[i].term_counts
    /\ Get(papers[i].term_counts["mental health terms"], "PTSD", 0) = 2
    /\ Get(additional_terms[i], "PTSD", 0) = 2
    /\ Get(doc[i].term_counts["mental health terms"], "PTSD", 0) = 4
    /\ Get(doc[i].term_counts["epigenetic terms"], "DNA methylation", 0) = 1

\* every term of every taxonomy of the four top-level categories
TaxonomyTerms ==
  Range(mental_health_terms) \cup Range(epigenetic_terms) \cup Range(socioeconomic_terms)
    \cup UNION {Range(ethnographic_terms[k].val.items) : k \in 1..Len(ethnographic_terms)}

\* C5: the candidate labels passed to the oracle for every chunk are the union
\* of every taxonomy's terms, the terms inside every Ethnographic subcategory
\* list included.
C5_OracleVocabulary ==
  \A i \in TaskIds : \A k \in 1..Len(oracle_log[i]) :
    Range(oracle_log[i][k].labels) = TaxonomyTerms

\* C6: after any sequence of chunks, the count of each label is the number of
\* chunks whose oracle call succeeded with a score strictly above 0.3 for it.
C6_OracleCounting ==
  \A i \in TaskIds : \A l \in KnownLabels(i) :
    Get(additional_terms[i], l, 0) = Cardinality(QualifyingChunks(i, l))

C6_Witness ==
  \E i \in TaskIds :
    /\ Len(oracle_log[i]) = 3
    /\ ScoreOf(oracle_log[i][1], "PTSD") = ConfidenceThreshold
    /\ ScoreOf(oracle_log[i][2], "PTSD") > ConfidenceThreshold
    /\ ScoreOf(oracle_log[i][3], "PTSD") > ConfidenceThreshold
    /\ additional_terms[i]["PTSD"] = 2

\* the Counter built from the classifier calls that did not raise
RECURSIVE Contributions(_, _)
Contributions(calls, k) ==
  IF k = 0 THEN EmptyMap
  ELSE IF calls[k].raised THEN Contributions(calls, k - 1)
  ELSE CHOOSE after \in {CountHits(before, calls[k].labels, calls[k].scores, 1) :
                             before \in {Contributions(calls, k - 1)}} : TRUE

\* C7: whatever chunks the oracle raises on, the analysis returns, every chunk
\* of the text has been given to the oracle, and the label counts are exactly
\* the contributions of the chunks whose call did not raise.
C7_OracleFailureIsolation ==
  \A i \in TaskIds :
    /\ (pc[i] = "analyze" /\ ci[i] <= Len(chunks[i])) => Len(oracle_log[i]) = ci[i] - 1
    /\ Merged(i) =>
         /\ Len(oracle_log[i]) = Len(sent_tokenize(papers[i].cleaned_text))
         /\ additional_terms[i] = Contributions(oracle_log[i], Len(oracle_log[i]))
         /\ task[i].raised \in {"pending", "none", "KeyError", "TypeError"}

C7_Witness ==
  \E i \in TaskIds :
    /\ Merged(i)
    /\ Len(oracle_log[i]) = 3
    /\ ~oracle_log[i][1].raised /\ oracle_log[i][2].raised /\ ~oracle_log[i][3].raised
    /\ additional_terms[i] = ("PTSD" :> 2) @@ ("African descent" :> 1)

\* C8: a document with empty term_counts or blank text returns None without
\* raising; it does not abort the run, every other document is processed, and
\* the written output has no entry for it, not even a null one.
C8_SkipPrecondition ==
  /\ \A i \in TaskIds : Skippable(papers[i]) =>
       /\ task[i] \in {TaskPending, TaskReturn(None)}
       /\ pc[i] = "done" => task[i] = TaskReturn(None)
       /\ \A k \in 1..Len(output.papers) : output.papers[k].paper_id # i
  /\ pa_pc = "raised" =>
       \E j \in TaskIds : ~Skippable(papers[j]) /\ task[j].raised \notin {"pending", "none"}
  /\ output.written =>
       /\ \A k \in 1..Len(output.papers) : output.papers[k].type = "dict"
       /\ \A j \in TaskIds : ~Skippable(papers[j]) =>
            \E k \in 1..Len(output.papers) :
              output.papers[k] = task[j].value /\ output.papers[k].paper_id = j

C8_Witness ==
  /\ output.written
  /\ Len(papers) = 2
  /\ IsEmptyMapping(papers[1].term_counts)
  /\ ~Skippable(papers[2])
  /\ Len(output.papers) = 1
  /\ output.papers[1].paper_id = 2

\* C9: both precondition checks come before the first oracle invocation; for
\* a skipped document the oracle is never invoked and neither the merge nor
\* the classification runs.
C9_PreconditionOrdering ==
  \A i \in TaskIds :
    /\ pc[i] \in {"queued", "check_text", "cancelled"} =>
         oracle_log[i] = <<>> /\ doc[i] = papers[i] /\ task[i] = TaskPending
    /\ oracle_log[i] # <<>> =>
         ~IsEmptyMapping(papers[i].term_counts) /\ ~IsBlank(papers[i].cleaned_text)
    /\ Skippable(papers[i]) =>
         /\ oracle_log[i] = <<>>
         /\ doc[i] = papers[i]
         /\ task[i].value = None

C9_Witness ==
  \E i, j \in TaskIds :
    /\ Skipped(i) /\ IsBlank(papers[i].cleaned_text)
    /\ ~IsEmptyMapping(papers[i].term_counts)
    /\ oracle_log[j] # <<>>

FourCategories == {"Mental Health", "Epigenetic", "Socioeconomic", "Ethnographic"}

\* C10: every non-skipped document, also one lacking some of the four raw
\* categories, gets a record whose categorized_counts has exactly the four
\* keys Mental Health, Epigenetic, Socioeconomic and Ethnographic.
C10_RecordShape ==
  \A i \in TaskIds : (pc[i] = "done" /\ ~Skippable(papers[i])) =>
    /\ task[i].raised = "none"
    /\ task[i].value.type = "dict"
    /\ task[i].value.paper_id = i
    /\ DOMAIN task[i].value.categorized_counts = FourCategories
    /\ \A k \in 1..Len(CategoryPlan) :
         task[i].value.categorized_counts[CategoryPlan[k].name]
           = categorize_terms(TermCounts("Counter", doc[i].term_counts[CategoryPlan[k].raw]),
                              CategoryPlan[k].taxonomy).value

\* ---------------------------------------------- claims: process_articles
\* the paper_id of every record of the written output, in output order
OutputIds == [k \in 1..Len(output.papers) |-> output.papers[k].paper_id]

\* C11: in every corpus result each record's paper_id is the 1-based position
\* of its document in the input; the ids are pairwise distinct and strictly
\* increasing, and a skipped document leaves a gap instead of renumbering.
C11_StableIdentifiers ==
  /\ \A i \in TaskIds : (task[i].raised = "none" /\ task[i].value # None) =>
       /\ task[i].value.paper_id = i
       /\ task[i].value.categorized_counts
            = BuildCategorized(doc[i].term_counts, EmptyMap, 1).value
  /\ output.written =>
       /\ \A k \in 1..Len(OutputIds) :
            /\ OutputIds[k] \in TaskIds
            /\ ~Skippable(papers[OutputIds[k]])
            /\ output.papers[k] = task[OutputIds[k]].value
       /\ \A k, l \in 1..Len(OutputIds) : k < l => OutputIds[k] < OutputIds[l]
       /\ \A i \in TaskIds : Skippable(papers[i]) => i \notin Range(OutputIds)

C11_Witness ==
  /\ output.written
  /\ Len(papers) = 2
  /\ IsBlank(papers[1].cleaned_text) /\ ~IsEmptyMapping(papers[1].term_counts)
  /\ OutputIds = <<2>>

\* the records of the non-skipped documents among the first n, in input order
RECURSIVE RecordsInInputOrder(_)
RecordsInInputOrder(n) ==
  IF n = 0 THEN <<>>
  ELSE IF Skippable(papers[n]) THEN RecordsInInputOrder(n - 1)
  ELSE Append(RecordsInInputOrder(n - 1), task[n].value)

Returned(i) == task[i].raised = "none" /\ task[i].value # None

\* C13: when one document of the corpus is malformed (its non-empty
\* term_counts lacks a raw category, or the classification raises on it),
\* process_articles does not abort: no task is left unprocessed, and once it
\* has ended the output is written and holds every other document's record.
C13_CorpusRobustness ==
  /\ pa_pc # "raised"
  /\ \A i \in TaskIds : pc[i] # "cancelled"
  /\ pa_pc = "written" =>
       /\ output.written
       /\ \A i \in TaskIds : Returned(i) => In(task[i].value, output.papers)

\* process_single_paper ended task i with an uncaught exception
Failed(i) == task[i].raised \notin {"pending", "none"}

\* C14: when process_single_paper raises for a document, process_articles
\* raises too and writes no output; an output is only ever written when no
\* task has failed, and then no document's record is missing or altered.
C14_WorkerFailurePolicy ==
  /\ \A i \in TaskIds : Failed(i) => ~output.written /\ pa_pc \in {"map", "raised"}
  /\ pa_pc = "raised" => \E i \in TaskIds : Failed(i) /\ Len(results) = i - 1
  /\ output.written =>
       /\ \A i \in TaskIds : Returned(i) => In(task[i].value, output.papers)
       /\ \A k \in 1..Len(output.papers) :
            \E i \in TaskIds : Returned(i) /\ output.papers[k] = task[i].value

C14_Witness ==
  /\ pa_pc = "raised"
  /\ ~output.written
  /\ \E i, j \in TaskIds : Failed(i) /\ Returned(j)

\* -------------------------------------- claims: frame and independence
\* C15: after process_single_paper has returned, with a record or with None,
\* the document passed to it is as it was before the call: its term_counts
\* holds the same raw counts.
C15_NoSideEffects ==
  \A i \in TaskIds : (pc[i] = "done" /\ task[i].raised = "none") => doc[i] = papers[i]

\* process_single_paper run alone on (paper_index, paper), the oracle's answers
\* to the chunks adding up to the counts oracle_counts
AloneResult(paper_index, paper, oracle_counts) ==
  IF Skippable(paper) THEN TaskReturn(None)
  ELSE LET r == BuildCategorized(MergeCounts(paper.term_counts, oracle_counts), EmptyMap, 1)
       IN  IF r.raised # "none" THEN TaskRaise(r.raised)
           ELSE TaskReturn(Record(paper_index, r.value))

\* C16: whatever the interleaving of the workers, the result of every document
\* is the one of processing it alone; until a worker takes a document nobody
\* has written its counts, and every oracle call is given the label list built
\* from the taxonomy as defined.
C16_ConcurrentIndependence ==
  \A i \in TaskIds :
    /\ pc[i] = "done" =>
         \E oracle_counts \in {Contributions(oracle_log[i], Len(oracle_log[i]))} :
           task[i] = AloneResult(i, papers[i], oracle_counts)
    /\ pc[i] \in {"queued", "cancelled"} => doc[i] = papers[i] /\ oracle_log[i] = <<>>
    /\ \A k \in 1..Len(oracle_log[i]) :
         oracle_log[i][k].labels
           = mental_health_terms \o epigenetic_terms \o DictKeys(ethnographic_terms)
               \o socioeconomic_terms

C16_Witness ==
  /\ Len(papers) = 2
  /\ papers[1] = papers[2]
  /\ completed = <<2, 1>>
  /\ Returned(1) /\ Returned(2)
  /\ additional_terms[1] # additional_terms[2]
  /\ task[1].value.categorized_counts # task[2].value.categorized_counts

\* ------------------------------------------ claims: algebra of the results
\* the counts with every quantity doubled
Doubled(term_counts) ==
  TermCounts(term_counts.type,
             [t \in DOMAIN term_counts.counts |-> 2 * term_counts.counts[t]])

\* two categorized results summed bucket by bucket and term by term
SumBuckets(a, b) ==
  [bucket \in DOMAIN a \cup DOMAIN b |->
     LET x == Get(a, bucket, EmptyMap)
         y == Get(b, bucket, EmptyMap)
     IN  [t \in DOMAIN x \cup DOMAIN y |-> Get(x, t, 0) + Get(y, t, 0)]]

\* C17: for every term_counts mapping and every flat or nested taxonomy,
\* classifying the counts twice and summing the two results bucket by bucket
\* and term by term gives the result of classifying the doubled counts; when
\* the classification raises, it raises the same for the doubled counts.
C17_AdditiveDoubling ==
  (Called /\ IsMapping(ct_term_counts) /\ (IsFlat(ct_categories) \/ IsNested(ct_categories)))
    => LET again   == categorize_terms(ct_term_counts, ct_categories)
           doubled == categorize_terms(Doubled(ct_term_counts), ct_categories)
       IN  /\ doubled.raised = ct_ret.raised
           /\ ct_ret.raised = "none" => doubled.value = SumBuckets(ct_ret.value, again.value)

C17_Witness ==
  /\ ct_pc = "returned"
  /\ IsNested(ct_categories)
  /\ DOMAIN ct_term_counts.counts = {"PTSD", "African-American"}
  /\ ct_term_counts.counts["PTSD"] = 2
  /\ \E bucket \in DOMAIN ct_ret.value :
       /\ "PTSD" \in DOMAIN ct_ret.value[bucket]
       /\ ct_ret.value[bucket]["PTSD"] = 2
       /\ categorize_terms(Doubled(ct_term_counts), ct_categories).value[bucket]["PTSD"] = 4

\* what a task's result says apart from the position of the document
Outcome(i) == [raised |-> task[i].raised, type |-> task[i].value.type,
               categorized_counts |-> task[i].value.categorized_counts]

C19_TaxonomyReadOnly ==
  /\ taxonomy = ModuleTaxonomy
  /\ \A i \in TaskIds : \A k \in 1..Len(oracle_log[i]) :
       Len(oracle_log[i][k].labels)
         = Len(mental_health_terms) + Len(epigenetic_terms) + Len(ethnographic_terms)
             + Len(socioeconomic_terms)
  /\ \A k \in 1..Len(CategoryPlan) :
       CategoryPlan[k].taxonomy
         \in {PyList(mental_health_terms), PyList(epigenetic_terms),
              PyList(socioeconomic_terms), PyDict(ethnographic_terms)}

C19_Witness ==
  /\ Len(papers) = 2
  /\ Returned(1)
  /\ Len(oracle_log[1]) = 1
  /\ pc[2] = "categorize"
  /\ Len(oracle_log[2]) = 1
  /\ taxonomy = ModuleTaxonomy

\* no term of the raw counts is a term of the taxonomy
NoTermMatches(counts, categories) ==
  \A t \in DOMAIN counts :
    IF categories.type = "list" THEN ~In(t, categories.items)
    ELSE FirstMatch(t, categories.entries) = 0

\* C20: for a non-skipped document on which the oracle returns no label above
\* the threshold, a record is returned and each of its categories is the
\* result of categorize_terms on that category's raw counts; a category in
\* which no term matches (an empty raw category included) is {}.
C20_SilentOracle ==
  \A i \in TaskIds :
    (pc[i] = "done" /\ ~Skippable(papers[i]) /\ additional_terms[i] = EmptyMap) =>
      /\ task[i].raised = "none"
      /\ \A k \in 1..Len(CategoryPlan) :
           LET p == CategoryPlan[k] IN
           /\ p.raw \in DOMAIN papers[i].term_counts
           /\ p.name \in DOMAIN task[i].value.categorized_counts
           /\ LET raw == papers[i].term_counts[p.raw]
                  got == task[i].value.categorized_counts[p.name]
              IN  /\ got = categorize_terms(TermCounts("dict", raw), p.taxonomy).value
                  /\ NoTermMatches(raw, p.taxonomy) => got = EmptyMap

\* ------------------------------------ claims: categorize_terms, mixed taxonomy
\* a taxonomy mapping with at least one mapping-valued entry
IsMixed(categories) ==
  /\ categories.type = "dict"
  /\ \E k \in 1..Len(categories.entries) : categories.entries[k].val.type = "dict"

\* the term is in the list of the list-valued entry number k and in no
\* list-valued entry before it
FirstListMatch(term, entries, k) ==
  /\ entries[k].val.type = "list"
  /\ In(term, entries[k].val.items)
  /\ \A j \in 1..(k - 1) : ~(entries[j].val.type = "list" /\ In(term, entries[j].val.items))

\* C21: given a flat term -> count mapping and a taxonomy mapping whose values
\* are term lists or nested mappings, the call returns; a term found in a
\* list-valued entry is counted under that entry's key, and a term found inside
\* a mapping-valued entry that the scan reaches is counted under the inner
\* subcategory name, each with the input count.
C21_MixedTaxonomy ==
  (Called /\ IsMapping(ct_term_counts) /\ IsMixed(ct_categories)) =>
    /\ ct_ret.raised = "none"
    /\ LET entries == ct_categories.entries
           counts  == ct_term_counts.counts
           value   == ct_ret.value
       IN  \A t \in DOMAIN counts : \A k \in 1..Len(entries) :
             /\ FirstListMatch(t, entries, k) =>
                  /\ entries[k].key \in DOMAIN value
                  /\ t \in DOMAIN value[entries[k].key]
                  /\ value[entries[k].key][t] = counts[t]
             /\ (/\ entries[k].val.type = "dict"
                 /\ FirstMatch(t, entries[k].val.entries) > 0
                 /\ \A j \in 1..(k - 1) : ~FirstListMatch(t, entries, j)) =>
                  LET sub == entries[k].val.entries[FirstMatch(t, entries[k].val.entries)].key
                  IN  /\ sub \in DOMAIN value
                      /\ t \in DOMAIN value[sub]
                      /\ value[sub][t] = counts[t]

\* ------------------------------------- claims: fetch_wikipedia_corpus
\* C22: for every link graph, every list of input terms and every max_pages,
\* the returned list has at most max_pages titles, also when one page has more
\* valid links than max_pages.
C22_CrawlSizeBound ==
  cr_pc = "returned" => Len(cr_result) <= cr_max_pages

\* the titles within d link steps of the page of an input term
RECURSIVE WithinSteps(_)
WithinSteps(d) ==
  IF d = 0 THEN Range(cr_input_terms) \cap cr_exists
  ELSE LET near == WithinSteps(d - 1) IN
       near \cup UNION {cr_links[t] : t \in near \cap cr_exists}

\* C30: on every finite link graph, cycles and self-links included, the crawl
\* asks for each title's page at most once, adds no title that is more than
\* max_depth link steps away from every input page, never nests fetch_links
\* deeper than max_depth, and returns a list without duplicate titles.
C30_CrawlTermination ==
  /\ \A t \in Titles : cr_fetched[t] <= 1
  /\ cr_corpus \subseteq WithinSteps(cr_max_depth)
  /\ Len(cr_stack) <= cr_max_depth
  /\ cr_pc = "returned" =>
       /\ Range(cr_result) = cr_corpus
       /\ \A a, b \in 1..Len(cr_result) : cr_result[a] = cr_result[b] => a = b

\* --------------------------------------- claims: generate_similar_terms
\* C23: in per_term mode, for every input term, corpus, ranking and topn, the
\* list of the input term contains the lower-cased input term and has at most
\* topn entries, exactly topn when the corpus has at least topn terms; when
\* the term is not among the top-ranked terms it comes first, followed by the
\* top-ranked terms cut so that the list has topn entries.
C23_PerTermExpansion ==
  ex_pc = "returned" =>
    LET top == TopTerms(ex_corpus, ex_ranking, ex_topn) IN
    /\ In(lower(ex_input_term), ex_ret)
    /\ Len(ex_ret) <= ex_topn
    /\ Len(ex_corpus) >= ex_topn => Len(ex_ret) = ex_topn
    /\ ~In(lower(ex_input_term), top) =>
         /\ ex_ret[1] = lower(ex_input_term)
         /\ \A k \in 2..Len(ex_ret) : ex_ret[k] = top[k - 1]

\* ------------------------------------------------------- claims: taxonomy
\* no value occurs at two positions of the list
NoDuplicates(list) ==
  \A j, k \in 1..Len(list) : list[j] = list[k] => j = k

\* no term is listed under two subcategories of the nested node
DisjointSubcategories(entries) ==
  \A j, k \in 1..Len(entries) :
    j # k => Range(entries[j].val.items) \cap Range(entries[k].val.items) = {}

\* the orders in which the subcategories of the nested node can be scanned
ScanOrders ==
  LET n == Len(ethnographic_terms) IN
  {p \in [1..n -> 1..n] : \A j, k \in 1..n : p[j] = p[k] => j = k}

\* the nested node with its subcategories in the order p
Reordered(entries, p) == [k \in 1..Len(entries) |-> entries[p[k]]]

\* C24: in the taxonomy the program holds, no term is listed under two
\* subcategories of the Ethnographic node and no term is listed twice in a
\* list; and the result of categorize_terms on the Ethnographic node is the
\* same for every order in which the subcategories are scanned
C24_TaxonomyInvariant ==
  /\ DisjointSubcategories(taxonomy.ethnographic_terms)
  /\ \A k \in 1..Len(taxonomy.ethnographic_terms) :
       NoDuplicates(taxonomy.ethnographic_terms[k].val.items)
  /\ NoDuplicates(taxonomy.mental_health_terms)
  /\ NoDuplicates(taxonomy.epigenetic_terms)
  /\ NoDuplicates(taxonomy.socioeconomic_terms)
  /\ (ct_pc = "returned" /\ ct_categories.type = "dict") =>
       \A p \in ScanOrders :
         categorize_terms(ct_term_counts, PyDict(Reordered(ct_categories.entries, p)))
           = ct_ret

\* categorize_terms has returned on the Ethnographic node with terms of two
\* subcategories counted
C24_Witness ==
  /\ ct_pc = "returned"
  /\ ct_categories = PyDict(taxonomy.ethnographic_terms)
  /\ {"African descent", "European descent"} \subseteq DOMAIN ct_ret.value
  /\ DOMAIN ct_ret.value["African descent"] = {"African person", "Black person"}

\* ------------------------------------------------------ claims: completion
\* the output artifact is written only after the result of every document has
\* been collected, and so never while a call of the classifier is pending
WrittenAfterAllCollected ==
  output.written =>
    /\ Len(results) = Len(papers)
    /\ \A i \in TaskIds : pc[i] = "done"

\* once written the output artifact is not written again
WrittenOnce == [][output.written => output' = output]_vars

\* a task that has not ended can take its next step whatever the other tasks
\* do
NoTaskWaits ==
  \A i \in TaskIds :
    (pa_pc = "map" /\ pc[i] \notin {"done", "cancelled"}) => ENABLED TaskStep(i)

\* C25: when every call of the classifier returns or raises, process_articles
\* eventually writes the output artifact, once and only after the result of
\* every document has been collected; no task waits on another task
C25_Completion ==
  /\ <>(output.written)
  /\ [](WrittenAfterAllCollected)
  /\ WrittenOnce
  /\ [](NoTaskWaits)

\* ----------------------------------- claims: categorize_terms, buckets per term
\* sum of the counts of a term -> count mapping
RECURSIVE SumOver(_, _)
SumOver(counts, terms) ==
  IF terms = {} THEN 0
  ELSE LET t == CHOOSE x \in terms : TRUE
       IN  counts[t] + SumOver(counts, terms \ {t})

TotalCount(counts) == SumOver(counts, DOMAIN counts)

\* sum of all counts of a categorized result
RECURSIVE TotalOver(_, _)
TotalOver(categorized, buckets) ==
  IF buckets = {} THEN 0
  ELSE LET b == CHOOSE x \in buckets : TRUE
       IN  TotalCount(categorized[b]) + TotalOver(categorized, buckets \ {b})

TotalCategorized(categorized) == TotalOver(categorized, DOMAIN categorized)

\* the buckets of the result that hold the term
BucketsOf(categorized, term) ==
  {b \in DOMAIN categorized : term \in DOMAIN categorized[b]}

\* C26: when categorize_terms returns for a term_counts mapping and a taxonomy
\* whose values are term lists or nested mappings, every input term is in at
\* most one bucket of the result, with its input count, and the counts of the
\* result sum to no more than the input counts.
C26_SingleBucket ==
  (ct_pc = "returned" /\ IsMapping(ct_term_counts) /\ ct_categories.type \in {"list", "dict"})
    => /\ \A t \in DOMAIN ct_term_counts.counts :
            /\ Cardinality(BucketsOf(ct_ret.value, t)) <= 1
            /\ \A b \in BucketsOf(ct_ret.value, t) :
                 ct_ret.value[b][t] = ct_term_counts.counts[t]
       /\ TotalCategorized(ct_ret.value) <= TotalCount(ct_term_counts.counts)

\* ---------------------------------- claims: categorize_terms, shape check
\* C27: categorize_terms returns for every term_counts argument that is a
\* mapping from terms to counts, whatever its keys are, and raises only when
\* term_counts is not a mapping.
C27_NoFalseRejection ==
  Called => (ct_pc = "raised" <=> ~IsMapping(ct_term_counts))

\* ------------------------------------------------ claims: merge and buckets
\* the bucket categorize_terms files a term of the taxonomy under, "" when the
\* term is not in the taxonomy
BucketFor(term, categories) ==
  IF categories.type = "list"
  THEN IF In(term, categories.items) THEN "General" ELSE ""
  ELSE IF FirstMatch(term, categories.entries) = 0 THEN ""
       ELSE categories.entries[FirstMatch(term, categories.entries)].key

\* C28: for every document that got a record, every category C and every term
\* t of C's taxonomy that is a key of the document's raw counts for C, t is in
\* categorized_counts[C] under its bucket with the raw count plus the oracle's
\* count, also when both are 0.
C28_RawTermsKept ==
  \A i \in TaskIds : Returned(i) =>
    \A k \in 1..Len(CategoryPlan) :
      LET p   == CategoryPlan[k]
          raw == papers[i].term_counts[p.raw]
          cat == task[i].value.categorized_counts[p.name]
      IN  \A t \in DOMAIN raw :
            LET b == BucketFor(t, p.taxonomy) IN
            b # "" =>
              /\ b \in DOMAIN cat
              /\ t \in DOMAIN cat[b]
              /\ cat[b][t] = raw[t] + Get(additional_terms[i], t, 0)

\* ------------------------------------------ claims: category non-interference
\* the labels the classifier is given for a taxonomy: its terms and, for the
\* nested node, the names of its subcategories (line 140)
LabelsOf(categories) ==
  IF categories.type = "list" THEN Range(categories.items)
  ELSE Range(DictKeys(categories.entries))
         \cup UNION {Range(categories.entries[k].val.items)
                       : k \in 1..Len(categories.entries)}

\* the label counts of tasks i and j differ at most on labels of the taxonomy
DifferOnlyOn(i, j, categories) ==
  \A l \in (DOMAIN additional_terms[i] \cup DOMAIN additional_terms[j])
             \ LabelsOf(categories) :
    Get(additional_terms[i], l, 0) = Get(additional_terms[j], l, 0)

\* C29: two equal documents whose oracle hits differ only on labels of one
\* top-level category end alike, and their records have identical
\* categorized_counts for the three other categories.
C29_CategoryNonInterference ==
  \A i, j \in TaskIds : \A k \in 1..Len(CategoryPlan) :
    ( /\ pc[i] = "done" /\ pc[j] = "done"
      /\ papers[i] = papers[j]
      /\ DifferOnlyOn(i, j, CategoryPlan[k].taxonomy) )
    => /\ task[i].raised = task[j].raised
       /\ task[i].value.type = task[j].value.type
       /\ (Returned(i) /\ Returned(j)) =>
            \A h \in 1..Len(CategoryPlan) :
              h # k => task[i].value.categorized_counts[CategoryPlan[h].name]
                         = task[j].value.categorized_counts[CategoryPlan[h].name]

\* two equal documents, one with an oracle hit for PTSD and one without: the
\* hit was added to every raw category of the first, the Mental Health
\* categories of the records differ and the other three are equal
C29_Witness ==
  /\ Len(papers) = 2
  /\ papers[1] = papers[2]
  /\ Returned(1) /\ Returned(2)
  /\ DOMAIN additional_terms[1] = {"PTSD"}
  /\ DOMAIN additional_terms[2] = {}
  /\ "PTSD" \in DOMAIN doc[1].term_counts["ethnographic terms"]
  /\ "PTSD" \in DOMAIN doc[1].term_counts["socioeconomic terms"]
  /\ task[1].value.categorized_counts["Mental Health"]
       # task[2].value.categorized_counts["Mental Health"]
  /\ \A c \in {"Epigenetic", "Socioeconomic", "Ethnographic"} :
       task[1].value.categorized_counts[c] = task[2].value.categorized_counts[c]

====
